---- MODULE Spec2Model ----
(***************************************************************************)
(* Model of kagglehub/registry.py: MultiImplRegistry, the fallback         *)
(* registry that tries the registered resolvers in reverse registration   *)
(* order, and _is_auth_failure, the classification of the exceptions a     *)
(* resolver raises.                                                        *)
(*                                                                         *)
(* Python's None is the empty sequence <<>>, a present value v is <<v>>.   *)
(* An exception object is a record whose id field is its identity: the     *)
(* list position and the operation that raised it.                         *)
(***************************************************************************)
EXTENDS Integers, Sequences, FiniteSets, TLC

\* Largest number of add_implementation calls explored.
MaxImpls == 3

None == <<>>

Some(v) == <<v>>

\* The four module-level registries.
RegistryNames ==
    {"ModelResolver", "DatasetResolver", "CompetitionResolver", "NotebookOutputResolver"}

\* Resolver objects that callers register.
Resolvers == {"r1", "r2", "r3"}

\* type(impl).__name__
TypeName(impl) ==
    CASE impl = "r1" -> "R1"
      [] impl = "r2" -> "R2"
      [] impl = "r3" -> "R3"

\* The call arguments, forwarded verbatim to every resolver.
Handles == {"owner/name"}

\* HTTPStatus.UNAUTHORIZED and HTTPStatus.FORBIDDEN.
UNAUTHORIZED == 401

FORBIDDEN == 403

\* With 404 (not found) and 500 (internal server error), the codes explored.
StatusCodes == {UNAUTHORIZED, FORBIDDEN, 404, 500}

\* exc.response: None, or a response with a status_code.
Responses == {None} \cup {Some([status_code |-> s]) : s \in StatusCodes}

\* The two classes of kagglehub.exceptions whose response _is_auth_failure reads.
HTTPErrorTypes == {"KaggleApiHTTPError", "ColabHTTPError"}

\* The responses explored with each of them.
ResponsesOf(t) ==
    IF t = "KaggleApiHTTPError"
    THEN {None} \cup {Some([status_code |-> s]) : s \in {UNAUTHORIZED, FORBIDDEN, 404}}
    ELSE {None} \cup {Some([status_code |-> s]) : s \in {UNAUTHORIZED, FORBIDDEN, 500}}

Exception(t, r, pos, op) == [type |-> t, response |-> r, id |-> <<pos, op>>, args |-> None]

\* The exceptions a resolver's operation op at list position pos may raise:
\* UnauthenticatedError, the two HTTP errors, their base class HTTPError with
\* a 401 response, and an unrelated ValueError.
ResolverExceptions(pos, op) ==
    {Exception("UnauthenticatedError", None, pos, op),
     Exception("ValueError", None, pos, op),
     Exception("HTTPError", Some([status_code |-> UNAUTHORIZED]), pos, op)}
    \cup UNION {{Exception(t, r, pos, op) : r \in ResponsesOf(t)} : t \in HTTPErrorTypes}

\* The (location, size) tuples a resolver's __call__ may return.
Results ==
    {[location |-> "/cache/a", size |-> None], [location |-> "/cache/b", size |-> Some(1)]}

\* isinstance(exc, cls) for the classes _is_auth_failure tests.
IsInstance(exc, classes) == exc.type \in classes

\* Mutation: the HTTP errors are forgotten.
_is_auth_failure_OnlyUnauthenticated(exc) == IsInstance(exc, {"UnauthenticatedError"})

\* Mutation: the status code is read without the isinstance test.
_is_auth_failure_AnyResponse(exc) ==
    IF IsInstance(exc, {"UnauthenticatedError"})
    THEN TRUE
    ELSE IF exc.response # None
         THEN exc.response[1].status_code \in {UNAUTHORIZED, FORBIDDEN}
         ELSE FALSE

_is_auth_failure(exc) ==
    IF IsInstance(exc, {"UnauthenticatedError"})
    THEN TRUE
    ELSE IF IsInstance(exc, {"KaggleApiHTTPError", "ColabHTTPError"}) /\ exc.response # None
         THEN exc.response[1].status_code \in {UNAUTHORIZED, FORBIDDEN}
         ELSE FALSE

VARIABLES
    name,                 \* self._name
    impls,                \* self._impls
    added,                \* history: the add_implementation arguments, in call order
    pc,                   \* position of the caller: idle, or inside __call__
    args,                 \* *args, **kwargs of the running call
    i,                    \* position in self._impls of the entry being tried
    fails,                \* local fails
    last_auth_exception,  \* local last_auth_exception
    outcome,              \* what __call__ returned or raised
    log,                  \* history: the resolver calls made by the running call
    last_raised           \* history: the latest exception a resolver raised

vars == <<name, impls, added, pc, args, i, fails, last_auth_exception, outcome, log, last_raised>>

NoOutcome == [kind |-> "none", val |-> None]

Init ==
    /\ name \in RegistryNames
    /\ impls = <<>>
    /\ added = <<>>
    /\ pc = "idle"
    /\ args = None
    /\ i = 0
    /\ fails = <<>>
    /\ last_auth_exception = None
    /\ outcome = NoOutcome
    /\ log = <<>>
    /\ last_raised = None

\* Mutation: a resolver already in the list is not appended again.
ListAppend_Dedup(list, impl) ==
    IF \E k \in DOMAIN list : list[k] = impl THEN list ELSE Append(list, impl)

\* self._impls.append(impl)
ListAppend(list, impl) == Append(list, impl)

AddImplementation(impl) ==
    /\ pc = "idle"
    /\ Len(impls) < MaxImpls
    /\ impls' = ListAppend(impls, impl)
    /\ added' = Append(added, impl)
    /\ UNCHANGED <<name, pc, args, i, fails, last_auth_exception, outcome, log, last_raised>>

\* reversed(self._impls): the first position.
FirstIndex(list) == Len(list)

\* Mutation: the iteration steps over every other entry.
NextIndex_Skips(j) == j - 2

\* reversed(self._impls): the position after position j.
NextIndex(j) == j - 1

\* Where the for loop goes with position j: the body, or past the loop.
LoopAt(j) == IF j >= 1 THEN "is_supported" ELSE "exhausted"

\* Entry of __call__: the locals are initialised and the loop starts.
Call(a) ==
    /\ pc = "idle"
    /\ args' = Some(a)
    /\ fails' = <<>>
    /\ last_auth_exception' = None
    /\ i' = FirstIndex(impls)
    /\ pc' = LoopAt(FirstIndex(impls))
    /\ outcome' = NoOutcome
    /\ log' = <<>>
    /\ last_raised' = None
    /\ UNCHANGED <<name, impls, added>>

LogEntry(op, out, val) == [idx |-> i, op |-> op, out |-> out, val |-> val]

\* How the caller's taxonomy names a raised exception, for the history only.
AuthenticationFailures ==
    {[type |-> "UnauthenticatedError", response |-> r] : r \in Responses}
    \cup {[type |-> t, response |-> Some([status_code |-> s])] :
              t \in {"KaggleApiHTTPError", "ColabHTTPError"}, s \in {401, 403}}

Content(exc) == [type |-> exc.type, response |-> exc.response]

RaisedAs(exc) == IF Content(exc) \in AuthenticationFailures THEN "auth_error" ELSE "other_error"

\* Mutation: the name is inserted at the front of fails.
Continue_Prepends ==
    /\ fails' = <<TypeName(impls[i])>> \o fails
    /\ i' = NextIndex(i)
    /\ pc' = LoopAt(NextIndex(i))

\* fails.append(impl_name); continue
Continue ==
    /\ fails' = Append(fails, TypeName(impls[i]))
    /\ i' = NextIndex(i)
    /\ pc' = LoopAt(NextIndex(i))

\* Mutation: a recorded authentication exception is raised in place of exc.
Except_PrefersAuth(exc) ==
    IF _is_auth_failure(exc)
    THEN /\ Continue
         /\ last_auth_exception' = Some(exc)
         /\ UNCHANGED outcome
    ELSE /\ pc' = "done"
         /\ outcome' = [kind |-> "raise",
                        val |-> IF last_auth_exception # None THEN last_auth_exception[1] ELSE exc]
         /\ UNCHANGED <<i, fails, last_auth_exception>>

\* Mutation: the first authentication exception is kept, not the last.
Except_KeepsFirst(exc) ==
    IF _is_auth_failure(exc)
    THEN /\ Continue
         /\ last_auth_exception' = IF last_auth_exception = None THEN Some(exc) ELSE last_auth_exception
         /\ UNCHANGED outcome
    ELSE /\ pc' = "done"
         /\ outcome' = [kind |-> "raise", val |-> exc]
         /\ UNCHANGED <<i, fails, last_auth_exception>>

\* except Exception as exc: fall back on an authentication failure, else re-raise.
Except(exc) ==
    IF _is_auth_failure(exc)
    THEN /\ Continue
         /\ last_auth_exception' = Some(exc)
         /\ UNCHANGED outcome
    ELSE /\ pc' = "done"
         /\ outcome' = [kind |-> "raise", val |-> exc]
         /\ UNCHANGED <<i, fails, last_auth_exception>>

\* Mutation: the answer of is_supported is ignored and impl is invoked.
IsSupportedReturn_IgnoresAnswer(b) ==
    /\ pc = "is_supported"
    /\ log' = Append(log, LogEntry("is_supported", IF b THEN "True" ELSE "False", None))
    /\ pc' = "invoke"
    /\ UNCHANGED <<i, fails>>
    /\ UNCHANGED <<name, impls, added, args, last_auth_exception, outcome, last_raised>>

\* impl.is_supported(*args, **kwargs) returns b.
IsSupportedReturn(b) ==
    /\ pc = "is_supported"
    /\ log' = Append(log, LogEntry("is_supported", IF b THEN "True" ELSE "False", None))
    /\ IF ~b
       THEN Continue
       ELSE /\ pc' = "invoke"
            /\ UNCHANGED <<i, fails>>
    /\ UNCHANGED <<name, impls, added, args, last_auth_exception, outcome, last_raised>>

\* impl.is_supported(*args, **kwargs) raises exc.
IsSupportedRaise(exc) ==
    /\ pc = "is_supported"
    /\ log' = Append(log, LogEntry("is_supported", RaisedAs(exc), None))
    /\ last_raised' = Some(exc)
    /\ Except(exc)
    /\ UNCHANGED <<name, impls, added, args>>

\* Mutation: the result is kept and the loop goes on.
InvokeReturn_KeepsGoing(v) ==
    /\ pc = "invoke"
    /\ log' = Append(log, LogEntry("invoke", "returned", Some(v)))
    /\ i' = NextIndex(i)
    /\ pc' = IF NextIndex(i) >= 1 THEN "is_supported" ELSE "done"
    /\ outcome' = [kind |-> "return", val |-> v]
    /\ UNCHANGED <<name, impls, added, args, fails, last_auth_exception, last_raised>>

\* return impl(*args, **kwargs), impl returning v.
InvokeReturn(v) ==
    /\ pc = "invoke"
    /\ log' = Append(log, LogEntry("invoke", "returned", Some(v)))
    /\ pc' = "done"
    /\ outcome' = [kind |-> "return", val |-> v]
    /\ UNCHANGED <<name, impls, added, args, i, fails, last_auth_exception, last_raised>>

\* impl(*args, **kwargs) raises exc.
InvokeRaise(exc) ==
    /\ pc = "invoke"
    /\ log' = Append(log, LogEntry("invoke", RaisedAs(exc), None))
    /\ last_raised' = Some(exc)
    /\ Except(exc)
    /\ UNCHANGED <<name, impls, added, args>>

\* msg = f"Missing implementation that supports: {name}(*{args}, **{kwargs}). Tried {fails}"
Message(n, a, f) ==
    [text |-> "Missing implementation that supports", name |-> n, args |-> a, tried |-> f]

RuntimeError(msg) ==
    [type |-> "RuntimeError", response |-> None, id |-> <<0, "__call__">>, args |-> Some(msg)]

\* Mutation: the recorded authentication exception is forgotten.
Exhausted_AlwaysGeneric ==
    /\ pc = "exhausted"
    /\ pc' = "done"
    /\ outcome' = [kind |-> "raise", val |-> RuntimeError(Message(name, args[1], fails))]
    /\ UNCHANGED <<name, impls, added, args, i, fails, last_auth_exception, log, last_raised>>

\* Past the loop: raise last_auth_exception if there is one, else the RuntimeError.
Exhausted ==
    /\ pc = "exhausted"
    /\ pc' = "done"
    /\ outcome' = IF last_auth_exception # None
                  THEN [kind |-> "raise", val |-> last_auth_exception[1]]
                  ELSE [kind |-> "raise", val |-> RuntimeError(Message(name, args[1], fails))]
    /\ UNCHANGED <<name, impls, added, args, i, fails, last_auth_exception, log, last_raised>>

\* The caller has received the outcome; the frame of __call__ and its locals
\* are gone and the registry is idle again.
Return ==
    /\ pc = "done"
    /\ pc' = "idle"
    /\ args' = None
    /\ i' = 0
    /\ fails' = <<>>
    /\ last_auth_exception' = None
    /\ outcome' = NoOutcome
    /\ log' = <<>>
    /\ last_raised' = None
    /\ UNCHANGED <<name, impls, added>>

Probe ==
    \/ \E b \in BOOLEAN : IsSupportedReturn(b)
    \/ \E exc \in ResolverExceptions(i, "is_supported") : IsSupportedRaise(exc)
    \/ \E v \in Results : InvokeReturn(v)
    \/ \E exc \in ResolverExceptions(i, "invoke") : InvokeRaise(exc)

Next ==
    \/ \E impl \in Resolvers : AddImplementation(impl)
    \/ \E a \in Handles : Call(a)
    \/ Probe
    \/ Exhausted
    \/ Return

Spec == Init /\ [][Next]_vars

\* The registry model_resolver alone.
InitModel == Init /\ name = "ModelResolver"

\* Every resolver call returns or raises, and the caller runs the loop on.
FairSpec == InitModel /\ [][Next]_vars /\ WF_vars(Probe) /\ WF_vars(Exhausted)

TypeOK ==
    /\ name \in RegistryNames
    /\ impls \in Seq(Resolvers)
    /\ pc \in {"idle", "is_supported", "invoke", "exhausted", "done"}
    /\ i \in 0..Len(impls)

----------------------------------------------------------------------------
\* Vocabulary of the properties, over the history of the running call.

N == Len(impls)

Returned(v) == [kind |-> "return", val |-> v]

\* The call has fallen back past log[k] to the next entry in reverse order.
FellThrough(k) ==
    IF k < Len(log)
    THEN log[k + 1].idx = log[k].idx - 1 /\ log[k + 1].op = "is_supported"
    ELSE IF log[k].idx > 1
         THEN pc = "is_supported" /\ i = log[k].idx - 1
         ELSE pc \in {"exhausted", "done"}

AuthPositions == {log[k].idx : k \in {m \in DOMAIN log : log[m].out = "auth_error"}}

Min(S) == CHOOSE x \in S : \A y \in S : x <= y

\* Every registered resolver was tried and none returned or aborted.
AllExhausted ==
    /\ pc = "done"
    /\ \A j \in 1..N : \E k \in DOMAIN log : log[k].idx = j /\ log[k].out \in {"False", "auth_error"}
    /\ \A k \in DOMAIN log : log[k].out \in {"True", "False", "auth_error"}

IsGenericError(exc) == exc.type = "RuntimeError" /\ exc.id = <<0, "__call__">>

\* C1: when the last-registered resolver supports the call and its invoke
\* returns, the call returns exactly that result and no earlier-registered
\* resolver has been asked anything.
C1_LastRegisteredWins ==
    \A k \in DOMAIN log :
        (log[k].idx = N /\ log[k].op = "invoke" /\ log[k].out = "returned")
        => /\ pc = "done"
           /\ outcome = Returned(log[k].val[1])
           /\ \A m \in DOMAIN log : log[m].idx = N

C1_Witness ==
    /\ pc = "done"
    /\ N >= 2
    /\ Len(log) = 2
    /\ log[1] = [idx |-> N, op |-> "is_supported", out |-> "True", val |-> None]
    /\ log[2].idx = N /\ log[2].out = "returned"
    /\ outcome.kind = "return"

\* C2: a non-authentication exception of a resolver ends the call at once
\* with that very exception, also after an authentication failure was recorded.
C2_NonAuthPropagates ==
    \A k \in DOMAIN log :
        log[k].out = "other_error"
        => /\ k = Len(log)
           /\ pc = "done"
           /\ i = log[k].idx
           /\ outcome.kind = "raise"
           /\ last_raised # None
           /\ outcome.val = last_raised[1]
           /\ outcome.val.id = <<log[k].idx, log[k].op>>
           /\ last_auth_exception # None => outcome.val # last_auth_exception[1]

C2_Witness ==
    /\ pc = "done"
    /\ i > 1
    /\ last_auth_exception # None
    /\ \E k \in DOMAIN log : log[k].out = "other_error"
    /\ outcome.kind = "raise"
    /\ outcome.val.type = "ValueError"

\* C3: when every resolver was tried without success and some raised an
\* authentication failure, the call raises the exception object raised by the
\* earliest-registered of those, never the generic error.
C3_LastAuthRaised ==
    (AllExhausted /\ AuthPositions # {})
    => /\ outcome.kind = "raise"
       /\ ~IsGenericError(outcome.val)
       /\ outcome.val.id[1] = Min(AuthPositions)
       /\ \E k \in DOMAIN log :
              /\ log[k].out = "auth_error"
              /\ outcome.val.id = <<log[k].idx, log[k].op>>
       /\ outcome.val = last_raised[1]
       /\ N = 1 => outcome.val.id[1] = 1

C3_Witness ==
    /\ AllExhausted
    /\ Cardinality(AuthPositions) = 2
    /\ \E k \in DOMAIN log : log[k].out = "False" /\ log[k].idx = 1
    /\ outcome.kind = "raise"
    /\ outcome.val.id[1] = 2

\* C4: a resolver whose is_supported returns false is never invoked and the
\* call falls through to the next one in reverse order; a supporting,
\* succeeding resolver right after it gives the call's result.
C4_UnsupportedFallsThrough ==
    \A k \in DOMAIN log :
        (log[k].op = "is_supported" /\ log[k].out = "False")
        => /\ \A m \in DOMAIN log : ~(log[m].idx = log[k].idx /\ log[m].op = "invoke")
           /\ FellThrough(k)
           /\ (k + 2 <= Len(log) /\ log[k + 1].out = "True" /\ log[k + 2].out = "returned")
              => outcome = Returned(log[k + 2].val[1])

C4_Witness ==
    /\ pc = "done"
    /\ N >= 2
    /\ Len(log) = 3
    /\ log[1].idx = N /\ log[1].out = "False"
    /\ log[2].idx = N - 1 /\ log[2].out = "True"
    /\ log[3].idx = N - 1 /\ log[3].out = "returned"
    /\ outcome = Returned(log[3].val[1])

\* C5: an authentication failure makes the call go on with the next resolver,
\* and a later success is the call's result, no exception being raised.
C5_AuthFailureRecoverable ==
    \A k \in DOMAIN log :
        log[k].out = "auth_error"
        => /\ FellThrough(k)
           /\ \A m \in DOMAIN log :
                  (m > k /\ log[m].out = "returned")
                  => pc = "done" /\ outcome = Returned(log[m].val[1])

C5_Witness ==
    /\ pc = "done"
    /\ outcome.kind = "return"
    /\ last_auth_exception # None
    /\ \E k \in DOMAIN log : log[k].out = "auth_error" /\ log[k].op = "invoke"

\* The authentication failures as the error taxonomy lists them.
ListedAuthFailures ==
    {[type |-> "UnauthenticatedError", response |-> None],
     [type |-> "KaggleApiHTTPError", response |-> Some([status_code |-> 401])],
     [type |-> "KaggleApiHTTPError", response |-> Some([status_code |-> 403])],
     [type |-> "ColabHTTPError", response |-> Some([status_code |-> 401])],
     [type |-> "ColabHTTPError", response |-> Some([status_code |-> 403])]}

\* C6: a raised exception triggers fallback exactly when it is an
\* UnauthenticatedError or a KaggleApiHTTPError/ColabHTTPError with a 401 or
\* 403 response; any other exception aborts the call.
C6_AuthClassification ==
    last_raised # None
    => LET exc == last_raised[1]
       IN  IF Content(exc) \in ListedAuthFailures
           THEN /\ last_auth_exception = Some(exc)
                /\ i < exc.id[1]
                /\ ~(outcome.kind = "raise" /\ outcome.val # exc)
           ELSE /\ pc = "done"
                /\ i = exc.id[1]
                /\ outcome = [kind |-> "raise", val |-> exc]

C6_Witness ==
    /\ pc = "done"
    /\ last_auth_exception # None
    /\ last_auth_exception[1].type = "KaggleApiHTTPError"
    /\ last_raised # None
    /\ last_raised[1].type = "ColabHTTPError"
    /\ last_raised[1].response = Some([status_code |-> 500])
    /\ outcome.kind = "raise" /\ outcome.val = last_raised[1]

\* The display names of the registered resolvers, latest first.
ReverseNames == [k \in 1..Len(added) |-> TypeName(added[Len(added) + 1 - k])]

\* C7: with no resolver, or when every resolver declines, the call raises the
\* generic RuntimeError, whose message has the registry's name and the
\* display names in reverse registration order.
C7_GenericError ==
    (/\ pc = "done"
     /\ Len(log) = N
     /\ \A k \in DOMAIN log : log[k].out = "False")
    => /\ outcome.kind = "raise"
       /\ IsGenericError(outcome.val)
       /\ outcome.val.args # None
       /\ outcome.val.args[1].name = name
       /\ outcome.val.args[1].args = args[1]
       /\ outcome.val.args[1].tried = ReverseNames

C7_Witness ==
    /\ pc = "done"
    /\ added = <<"r1", "r2", "r3">>
    /\ outcome.kind = "raise"
    /\ IsGenericError(outcome.val)
    /\ outcome.val.args[1].tried = <<"R3", "R2", "R1">>

\* C8: the resolver list is always the sequence of add_implementation
\* arguments in call order, duplicates included, whatever the calls did.
C8_ListIsRegistrations == impls = added

C8_Witness ==
    /\ pc = "done"
    /\ N = 3
    /\ impls[1] = impls[3]
    /\ \A j \in 1..N : \E k \in DOMAIN log : log[k].idx = j /\ log[k].op = "is_supported"
    /\ impls = added

\* C9: within one call each entry is probed at most once, in reverse order,
\* after every later entry declined or failed authentication; invoke follows
\* the entry's own is_supported returning true; at most one invoke returns.
C9_OneAtATimeInReverse ==
    /\ \A k \in DOMAIN log :
         /\ \A m \in DOMAIN log : (m # k) => ~(log[m].idx = log[k].idx /\ log[m].op = log[k].op)
         /\ log[k].idx \in 1..N
         /\ log[k].op = "is_supported"
            => /\ \A m \in 1..(k - 1) : log[m].idx > log[k].idx
               /\ \A j \in (log[k].idx + 1)..N :
                      \E m \in 1..(k - 1) : log[m].idx = j /\ log[m].out \in {"False", "auth_error"}
         /\ log[k].op = "invoke"
            => /\ k > 1
               /\ log[k - 1] = [idx |-> log[k].idx, op |-> "is_supported", out |-> "True", val |-> None]
    /\ Cardinality({k \in DOMAIN log : log[k].out = "returned"}) <= 1

C9_Witness ==
    /\ pc = "done"
    /\ Len(log) = 5
    /\ log[1].out = "True" /\ log[2].out = "auth_error"
    /\ log[3].out = "False"
    /\ log[4].out = "True" /\ log[5].out = "returned"

\* The four outcomes a caller can see.
IsResult == outcome.kind = "return" /\ \E k \in DOMAIN log : log[k].val = Some(outcome.val)

IsPropagated ==
    /\ outcome.kind = "raise"
    /\ ~IsGenericError(outcome.val)
    /\ Content(outcome.val) \notin ListedAuthFailures

IsLastAuth ==
    /\ outcome.kind = "raise"
    /\ ~IsGenericError(outcome.val)
    /\ Content(outcome.val) \in ListedAuthFailures

IsGeneric == outcome.kind = "raise" /\ IsGenericError(outcome.val)

Count(b) == IF b THEN 1 ELSE 0

C10_Outcomes ==
    /\ Cardinality({k \in DOMAIN log : log[k].op = "is_supported"}) <= N
    /\ pc = "done"
       => /\ Count(IsResult) + Count(IsPropagated) + Count(IsLastAuth) + Count(IsGeneric) = 1
          /\ IsLastAuth => AllExhausted
          /\ IsGeneric
             => /\ Len(outcome.val.args[1].tried) = N
                /\ Len(log) = N
                /\ \A j \in 1..N :
                       \E k \in DOMAIN log :
                           log[k] = [idx |-> j, op |-> "is_supported", out |-> "False", val |-> None]

\* C10: every call ends, after at most N probes, in exactly one of the four
\* outcomes, and the generic RuntimeError only when all N resolvers declined.
C10_Terminates ==
    /\ []C10_Outcomes
    /\ (pc \in {"is_supported", "invoke", "exhausted"}) ~> (pc = "done")

C10_Witness ==
    /\ pc = "done"
    /\ N = 3
    /\ Cardinality({k \in DOMAIN log : log[k].op = "is_supported"}) = 3
    /\ IsLastAuth
    /\ outcome.val.id = <<1, "invoke">>
====
